---- MODULE Spec2Model ----
(***************************************************************************)
(* Model of the two pipelines of the repository:                           *)
(*   restore_data.py  (Parquet archive -> SQL Server table)                *)
(*   extract_data.py  (SQL Server -> Parquet archive)                      *)
(* Four specifications share the variables:                                *)
(*   Spec         one run of restore_data.main                             *)
(*   SpecExtract  one run of extract_data.main                             *)
(*   SpecSave     one direct call of extract_data.save_as_parquet          *)
(*   SpecMapper   repeated calls of restore_data.get_sql_data_type         *)
(***************************************************************************)
EXTENDS Integers, Sequences, FiniteSets, TLC

\* ------------------------------------------------------------------ bounds
MaxRows == 5
MaxBatch == 3
MaxPre == 2
MaxCalls == 2

\* ------------------------------------------------------- program constants
StringLength == 255

VARIABLES
    \* restore_data.py
    args,          \* parsed command line of restore_data.main
    archive,       \* the content of the Parquet location: columns, rows
    pc,            \* position of restore_data.main
    df,            \* the DataFrame loaded from the archive
    duck,          \* DuckDB connection: "none", "open", "closed"
    engine,        \* SQLAlchemy engine: "none", "created", "disposed"
    reads,         \* number of read_parquet executions attempted
    dest0,         \* the destination table as the run found it
    dest,          \* destination table: [exists, columns, rows]
    table_exists,  \* local of create_table_if_not_exists
    log,           \* statements issued against the destination, in order
    i,             \* loop variable of insert_data_to_sql
    before,        \* rows of the destination when the insertion loop starts
    err,           \* exception that ended the run, NoError when none
    \* extract_data.py
    xargs,         \* parsed command line of extract_data.main / call arguments
    xpc,           \* position of extract_data.main or save_as_parquet
    spark,         \* Spark session: "none", "active", "stopped"
    jdbc,          \* number of JDBC reads opened against the source
    source_used,   \* which selector the JDBC read used
    xdf,           \* extracted DataFrame
    codec,         \* local compression_method of save_as_parquet
    warnings,      \* number of logger.warning calls
    output,        \* the written archive, NoOutput before the write
    xerr,          \* exception that ended the extractor run
    \* get_sql_data_type
    calls          \* history of get_sql_data_type calls

rvars == <<args, archive, pc, df, duck, engine, reads, dest0, dest,
           table_exists, log, i, before, err>>
xvars == <<xargs, xpc, spark, jdbc, source_used, xdf, codec, warnings,
           output, xerr>>
vars == <<rvars, xvars, calls>>

\* ----------------------------------------------------------------- helpers
Min(a, b) == IF a <= b THEN a ELSE b

Range(s) == {s[k] : k \in 1..Len(s)}

Rows(n) == [k \in 1..n |-> k]

PreRows(n) == [k \in 1..n |-> 0 - k]

NoError == <<>>
NoSchema == "None"
Absent == [exists |-> FALSE, columns |-> <<>>, rows |-> <<>>]
NoDf == [columns |-> <<>>, rows |-> <<>>]
NoOutput == [exists |-> FALSE, codec |-> "", partitioned |-> FALSE,
             columns |-> <<>>, rows |-> <<>>]

\* --------------------------------------------------------------- SchemaMapper
DTypes == {"int64", "int32", "uint8", "Int64", "float64", "float32",
           "datetime64[ns]", "datetime64[ns, UTC]", "timedelta64[ns]",
           "object", "bool", "category"}

ColumnNames == {"id", "amount", "created_at", "note"}

is_integer_dtype(d) == d \in {"int64", "int32", "uint8", "Int64"}

is_float_dtype(d) == d \in {"float64", "float32"}

is_datetime64_dtype(d) == d = "datetime64[ns]"

get_sql_data_type_swapped(pandas_dtype, column_name) ==
    IF is_integer_dtype(pandas_dtype) THEN <<"FLOAT">>
    ELSE IF is_float_dtype(pandas_dtype) THEN <<"INTEGER">>
    ELSE IF is_datetime64_dtype(pandas_dtype) THEN <<"DATETIME2">>
    ELSE <<"VARCHAR", StringLength>>

get_sql_data_type(pandas_dtype, column_name) ==
    IF is_integer_dtype(pandas_dtype) THEN <<"INTEGER">>
    ELSE IF is_float_dtype(pandas_dtype) THEN <<"FLOAT">>
    ELSE IF is_datetime64_dtype(pandas_dtype) THEN <<"DATETIME2">>
    ELSE <<"VARCHAR", StringLength>>

\* for column_name, dtype in df.dtypes.items(): columns.append(Column(...))
TableColumnsReversed(dtypes) ==
    [k \in 1..Len(dtypes) |->
        [name |-> dtypes[Len(dtypes) + 1 - k].name,
         type |-> get_sql_data_type(dtypes[Len(dtypes) + 1 - k].dtype,
                                    dtypes[Len(dtypes) + 1 - k].name)]]

TableColumns(dtypes) ==
    [k \in 1..Len(dtypes) |->
        [name |-> dtypes[k].name,
         type |-> get_sql_data_type(dtypes[k].dtype, dtypes[k].name)]]

\* ------------------------------------------------------------ restorer inputs
Policies == {"fail", "replace", "append"}

TableNames == {"orders", "items"}

Layouts == { << [name |-> "id", dtype |-> "int64"],
                [name |-> "note", dtype |-> "object"] >>,
             << [name |-> "created_at", dtype |-> "datetime64[ns]"],
                [name |-> "amount", dtype |-> "float64"],
                [name |-> "id", dtype |-> "Int64"] >> }

ExistingColumns == << [name |-> "id", type |-> <<"INTEGER">>] >>

InitialDest == {Absent} \cup
    {[exists |-> TRUE, columns |-> ExistingColumns, rows |-> PreRows(n)] :
        n \in 0..MaxPre}

\* key of a Table in MetaData.tables: "schema.name" with a schema, else "name"
TableKey(schema, table_name) ==
    IF schema # NoSchema THEN <<schema, table_name>> ELSE <<table_name>>

RestoreIdle ==
    /\ args = "idle" /\ archive = "idle" /\ pc = "idle" /\ df = NoDf
    /\ duck = "none" /\ engine = "none" /\ reads = 0 /\ dest = Absent
    /\ dest0 = Absent
    /\ table_exists = FALSE /\ log = <<>> /\ i = 0 /\ before = <<>>
    /\ err = NoError

ExtractIdle ==
    /\ xargs = "idle" /\ xpc = "idle" /\ spark = "none" /\ jdbc = 0
    /\ source_used = "none" /\ xdf = NoDf /\ codec = "unset" /\ warnings = 0
    /\ output = NoOutput /\ xerr = NoError

InitRestore ==
    /\ args \in [parquet_path_exists : BOOLEAN,
                 transform_query : BOOLEAN,
                 table_name : TableNames,
                 schema : {NoSchema, "dbo"},
                 if_exists : Policies,
                 batch_size : 1..MaxBatch]
    /\ archive \in [columns : Layouts, rows : {Rows(n) : n \in 0..MaxRows}]
    /\ dest \in InitialDest
    /\ dest0 = dest
    /\ pc = "main"
    /\ df = NoDf
    /\ duck = "none"
    /\ engine = "none"
    /\ reads = 0
    /\ table_exists = FALSE
    /\ log = <<>>
    /\ i = 0
    /\ before = <<>>
    /\ err = NoError
    /\ ExtractIdle
    /\ calls = <<>>

\* ------------------------------------------------------------- restorer steps
\* main, transform branch: conn = connect_to_duckdb()
ConnectTransform ==
    /\ pc = "main"
    /\ args.transform_query
    /\ duck' = "open"
    /\ pc' = "create_view"
    /\ UNCHANGED <<args, archive, dest0, df, engine, reads, dest,
                   table_exists, log, i, before, err>>

\* conn.execute("CREATE VIEW parquet_view AS SELECT * FROM read_parquet(...)")
\* DuckDB binds the view's query when it is created: a missing path raises
\* here; the except clause of main logs and re-raises, the handle stays open.
CreateView ==
    /\ pc = "create_view"
    /\ reads' = reads + 1
    /\ IF args.parquet_path_exists
         THEN /\ pc' = "transform"
              /\ err' = err
         ELSE /\ pc' = "error"
              /\ err' = <<"IOException", "parquet_path">>
    /\ UNCHANGED <<args, archive, dest0, df, duck, engine, dest, table_exists,
                   log, i, before>>

\* df = conn.execute(args.transform_query).fetchdf(); conn.close()
\* The query's result, not the raw archive, becomes the DataFrame.
TransformQuery ==
    /\ pc = "transform"
    /\ \/ /\ \E m \in 0..Len(archive.rows) :
                df' = [columns |-> archive.columns,
                       rows |-> SubSeq(archive.rows, 1, m)]
          /\ duck' = "closed"
          /\ pc' = "engine"
          /\ err' = err
       \/ /\ err' = <<"DuckDBError", "transform_query">>
          /\ pc' = "error"
          /\ UNCHANGED <<df, duck>>
    /\ UNCHANGED <<args, archive, dest0, engine, reads, dest, table_exists,
                   log, i, before>>

\* load_parquet_to_pandas: existence check, then connect_to_duckdb()
LoadCheck ==
    /\ pc = "main"
    /\ ~args.transform_query
    /\ IF ~args.parquet_path_exists
         THEN /\ err' = <<"FileNotFoundError", "parquet_path">>
              /\ pc' = "error"
              /\ duck' = duck
         ELSE /\ duck' = "open"
              /\ pc' = "load_read"
              /\ err' = err
    /\ UNCHANGED <<args, archive, dest0, df, engine, reads, dest,
                   table_exists, log, i, before>>

\* load_parquet_to_pandas: try: fetchdf ... finally: conn.close()
LoadRead ==
    /\ pc = "load_read"
    /\ reads' = reads + 1
    /\ duck' = "closed"
    /\ \/ /\ df' = [columns |-> archive.columns, rows |-> archive.rows]
          /\ pc' = "engine"
          /\ err' = err
       \/ /\ err' = <<"IOException", "parquet_path">>
          /\ pc' = "error"
          /\ df' = df
    /\ UNCHANGED <<args, archive, dest0, engine, dest, table_exists, log, i,
                   before>>

\* engine = create_sqlalchemy_engine(...)
CreateEngine ==
    /\ pc = "engine"
    /\ engine' = "created"
    /\ pc' = "check_exists"
    /\ UNCHANGED <<args, archive, dest0, df, duck, reads, dest, table_exists,
                   log, i, before, err>>

\* create_table_if_not_exists: table_exists = name in get_table_names(schema)
\* and the branch on the policy
CheckTableExistsNoFail ==
    /\ pc = "check_exists"
    /\ table_exists' = dest.exists
    /\ IF table_exists' /\ args.if_exists = "replace"
         THEN pc' = "drop" /\ err' = err
         ELSE pc' = "create" /\ err' = err
    /\ UNCHANGED <<args, archive, dest0, df, duck, engine, reads, dest, log,
                   i, before>>

CheckTableExists ==
    /\ pc = "check_exists"
    /\ table_exists' = dest.exists
    /\ IF table_exists' /\ args.if_exists = "fail"
         THEN /\ err' = <<"ValueError", args.table_name>>
              /\ pc' = "error"
         ELSE IF table_exists' /\ args.if_exists = "replace"
         THEN pc' = "drop" /\ err' = err
         ELSE pc' = "create" /\ err' = err
    /\ UNCHANGED <<args, archive, dest0, df, duck, engine, reads, dest, log,
                   i, before>>

\* metadata.reflect(only=[table_name], schema=schema): the reflected keys
Reflect(schema, table_name) == {TableKey(schema, table_name)}

\* if table_name in metadata.tables: metadata.tables[...].drop(engine)
\* table_exists = False
DropExisting ==
    /\ pc = "drop"
    /\ IF <<args.table_name>> \in Reflect(args.schema, args.table_name)
         THEN /\ dest' = Absent
              /\ log' = Append(log, [op |-> "drop", rows |-> <<>>])
         ELSE UNCHANGED <<dest, log>>
    /\ table_exists' = FALSE
    /\ pc' = "create"
    /\ UNCHANGED <<args, archive, dest0, df, duck, engine, reads, i, before,
                   err>>

\* if not table_exists or if_exists == 'replace'
ShouldCreate(exists, if_exists) == ~exists \/ if_exists = "replace"

\* Table(...); metadata.create_all(engine): CREATE TABLE is issued only for
\* a table the database does not have (checkfirst).  Then the loop starts.
CreateTable ==
    /\ pc = "create"
    /\ IF ShouldCreate(table_exists, args.if_exists) /\ ~dest.exists
         THEN /\ dest' = [exists |-> TRUE,
                       columns |-> TableColumns(df.columns),
                       rows |-> <<>>]
              /\ log' = Append(log, [op |-> "create", rows |-> <<>>])
         ELSE UNCHANGED <<dest, log>>
    /\ before' = dest'.rows
    /\ i' = 0
    /\ pc' = "insert"
    /\ UNCHANGED <<args, archive, dest0, df, duck, engine, reads,
                   table_exists, err>>

\* batch_end = min(i + batch_size, total_rows)
batch_end_unclamped(k, batch_size, total_rows) == total_rows

batch_end(k, batch_size, total_rows) == Min(k + batch_size, total_rows)

\* one iteration of the loop: batch_df.to_sql(..., if_exists='append'); the
\* call runs in one transaction, so a failing call commits nothing.
InsertBatchPartial ==
    /\ pc = "insert"
    /\ i < Len(df.rows)
    /\ LET batch == SubSeq(df.rows, i + 1,
                           batch_end(i, args.batch_size, Len(df.rows)))
       IN \/ /\ dest' = [dest EXCEPT !.rows = @ \o batch]
             /\ log' = Append(log, [op |-> "insert", rows |-> batch])
             /\ i' = i + args.batch_size
             /\ UNCHANGED <<pc, err>>
          \/ /\ err' = <<"DBAPIError", args.table_name>>
             /\ pc' = "error"
             /\ dest' = [dest EXCEPT !.rows = @ \o SubSeq(batch, 1, 1)]
             /\ UNCHANGED <<log, i>>
    /\ UNCHANGED <<args, archive, dest0, df, duck, engine, reads,
                   table_exists, before>>

InsertBatch ==
    /\ pc = "insert"
    /\ i < Len(df.rows)
    /\ LET batch == SubSeq(df.rows, i + 1,
                           batch_end(i, args.batch_size, Len(df.rows)))
       IN \/ /\ dest' = [dest EXCEPT !.rows = @ \o batch]
             /\ log' = Append(log, [op |-> "insert", rows |-> batch])
             /\ i' = i + args.batch_size
             /\ UNCHANGED <<pc, err>>
          \/ /\ err' = <<"DBAPIError", args.table_name>>
             /\ pc' = "error"
             /\ UNCHANGED <<dest, log, i>>
    /\ UNCHANGED <<args, archive, dest0, df, duck, engine, reads,
                   table_exists, before>>

\* the range is exhausted: "Successfully inserted", main returns
Finish ==
    /\ pc = "insert"
    /\ i >= Len(df.rows)
    /\ pc' = "done"
    /\ UNCHANGED <<args, archive, dest0, df, duck, engine, reads, dest,
                   table_exists, log, i, before, err>>

NextRestore ==
    /\ \/ ConnectTransform
       \/ CreateView
       \/ TransformQuery
       \/ LoadCheck
       \/ LoadRead
       \/ CreateEngine
       \/ CheckTableExists
       \/ DropExisting
       \/ CreateTable
       \/ InsertBatch
       \/ Finish
    /\ UNCHANGED <<xvars, calls>>

Spec == InitRestore /\ [][NextRestore]_vars

\* ------------------------------------------------------------ extractor inputs
\* choices of --compression in main
ArgparseChoices == {"snappy", "gzip", "lzo", "zstd", "none"}

\* valid_methods of save_as_parquet
valid_methods == {"snappy", "gzip", "lzo", "zstd", "none"}

\* names a direct caller of save_as_parquet may pass
CodecNames == ArgparseChoices \cup
    {"SNAPPY", "Gzip", "ZSTD", "None", "brotli", "lz4", "bogus", ""}

\* str.lower() on the names above
lower(s) ==
    CASE s = "SNAPPY" -> "snappy"
      [] s = "Gzip" -> "gzip"
      [] s = "ZSTD" -> "zstd"
      [] s = "None" -> "none"
      [] OTHER -> s

\* the codec names Spark's Parquet writer resolves (case-insensitively);
\* any other name makes .parquet() raise IllegalArgumentException
SparkAccepts(c) ==
    lower(c) \in {"none", "uncompressed", "snappy", "gzip", "lzo", "brotli",
                  "lz4", "zstd"}

SourceColumns == <<"id", "note">>

InitialOutput == {NoOutput,
    [exists |-> TRUE, codec |-> "gzip", partitioned |-> FALSE,
     columns |-> SourceColumns, rows |-> PreRows(1)]}

InitExtract ==
    /\ xargs \in [entry : {"main"},
                  table : BOOLEAN,
                  query : BOOLEAN,
                  params : BOOLEAN,
                  compression : ArgparseChoices,
                  partition_by : BOOLEAN,
                  source_rows : 0..MaxRows]
    /\ output \in InitialOutput
    /\ xpc = "validate"
    /\ spark = "none"
    /\ jdbc = 0
    /\ source_used = "none"
    /\ xdf = NoDf
    /\ codec = "unset"
    /\ warnings = 0
    /\ xerr = NoError
    /\ RestoreIdle
    /\ calls = <<>>

InitSave ==
    /\ xargs \in [entry : {"save_as_parquet"},
                  table : {TRUE},
                  query : {FALSE},
                  params : {TRUE},
                  compression : CodecNames,
                  partition_by : BOOLEAN,
                  source_rows : 0..MaxRows]
    /\ output \in InitialOutput
    /\ xpc = "save"
    /\ spark = "active"
    /\ jdbc = 1
    /\ source_used = "table"
    /\ xdf = [columns |-> SourceColumns, rows |-> Rows(xargs.source_rows)]
    /\ codec = "unset"
    /\ warnings = 0
    /\ xerr = NoError
    /\ RestoreIdle
    /\ calls = <<>>

\* ------------------------------------------------------------ extractor steps
\* main: the checks between parse_args() and the try block; parser.error
\* exits the process
ValidateArgs ==
    /\ xpc = "validate"
    /\ IF ~xargs.table /\ ~xargs.query
         THEN /\ xerr' = <<"SystemExit", "table_or_query">>
              /\ xpc' = "exit"
         ELSE IF ~xargs.params
         THEN /\ xerr' = <<"SystemExit", "missing_parameter">>
              /\ xpc' = "exit"
         ELSE /\ xerr' = xerr
              /\ xpc' = "spark"
    /\ UNCHANGED <<xargs, spark, jdbc, source_used, xdf, codec, warnings,
                   output>>

\* spark = get_spark_session(app_name)
GetSpark ==
    /\ xpc = "spark"
    /\ \/ /\ spark' = "active"
          /\ xpc' = "extract"
          /\ xerr' = xerr
       \/ /\ xerr' = <<"SparkError", "session">>
          /\ xpc' = "finally"
          /\ spark' = spark
    /\ UNCHANGED <<xargs, jdbc, source_used, xdf, codec, warnings, output>>

\* extract_from_sql_server: the query when one is given, else the table
ExtractFromSqlServer ==
    /\ xpc = "extract"
    /\ jdbc' = jdbc + 1
    /\ source_used' = IF xargs.query THEN "query" ELSE "table"
    /\ \/ /\ xdf' = [columns |-> SourceColumns,
                     rows |-> Rows(xargs.source_rows)]
          /\ xpc' = "save"
          /\ xerr' = xerr
       \/ /\ xerr' = <<"JDBCError", source_used'>>
          /\ xpc' = "finally"
          /\ xdf' = xdf
    /\ UNCHANGED <<xargs, spark, codec, warnings, output>>

\* save_as_parquet: "Validate compression method"
ValidateCompressionNoLower ==
    /\ xpc = "save"
    /\ IF xargs.compression \notin valid_methods
         THEN /\ warnings' = warnings + 1
              /\ codec' = "snappy"
         ELSE /\ warnings' = warnings
              /\ codec' = xargs.compression
    /\ xpc' = "write"
    /\ UNCHANGED <<xargs, spark, jdbc, source_used, xdf, output, xerr>>

ValidateCompression ==
    /\ xpc = "save"
    /\ IF lower(xargs.compression) \notin valid_methods
         THEN /\ warnings' = warnings + 1
              /\ codec' = "snappy"
         ELSE /\ warnings' = warnings
              /\ codec' = xargs.compression
    /\ xpc' = "write"
    /\ UNCHANGED <<xargs, spark, jdbc, source_used, xdf, output, xerr>>

\* where control goes when save_as_parquet returns or raises
AfterSave(ok) ==
    IF xargs.entry = "main" THEN "finally"
    ELSE IF ok THEN "returned" ELSE "raised"

\* save_as_parquet: withColumn("extraction_timestamp", ...) and the write in
\* mode("overwrite"), partitioned when partition columns are given
WriteParquet ==
    /\ xpc = "write"
    /\ IF ~SparkAccepts(codec)
         THEN /\ xerr' = <<"IllegalArgumentException", codec>>
              /\ xpc' = AfterSave(FALSE)
              /\ output' = output
         ELSE \/ /\ output' = [exists |-> TRUE,
                               codec |-> codec,
                               partitioned |-> xargs.partition_by,
                               columns |-> Append(xdf.columns,
                                                  "extraction_timestamp"),
                               rows |-> xdf.rows]
                 /\ xpc' = AfterSave(TRUE)
                 /\ xerr' = xerr
              \/ /\ xerr' = <<"IOError", "output_path">>
                 /\ xpc' = AfterSave(FALSE)
                 /\ output' = output
    /\ UNCHANGED <<xargs, spark, jdbc, source_used, xdf, codec, warnings>>

\* main: finally: if spark: spark.stop()
StopSpark ==
    /\ xpc = "finally"
    /\ spark' = IF spark = "active" THEN "stopped" ELSE spark
    /\ xpc' = IF xerr = NoError THEN "done" ELSE "error"
    /\ UNCHANGED <<xargs, jdbc, source_used, xdf, codec, warnings, output,
                   xerr>>

NextExtract ==
    /\ \/ ValidateArgs
       \/ GetSpark
       \/ ExtractFromSqlServer
       \/ ValidateCompression
       \/ WriteParquet
       \/ StopSpark
    /\ UNCHANGED <<rvars, calls>>

SpecExtract == InitExtract /\ [][NextExtract]_vars

NextSave ==
    /\ \/ ValidateCompression
       \/ WriteParquet
    /\ UNCHANGED <<rvars, calls>>

SpecSave == InitSave /\ [][NextSave]_vars

\* ------------------------------------------------------------- mapper calls
InitMapper ==
    /\ calls = <<>>
    /\ RestoreIdle
    /\ ExtractIdle

\* one call get_sql_data_type(dtype, column_name)
CallMapper ==
    /\ Len(calls) < MaxCalls
    /\ \E d \in DTypes, c \in ColumnNames :
         calls' = Append(calls, [dtype |-> d, column_name |-> c,
                                 result |-> get_sql_data_type(d, c)])
    /\ UNCHANGED <<rvars, xvars>>

NextMapper == CallMapper

SpecMapper == InitMapper /\ [][NextMapper]_vars

\* ==================================================================== claims
Inserts == SelectSeq(log, LAMBDA e : e.op = "insert")

Ceil(n, b) == (n + b - 1) \div b

IsDdl(e) == e.op \in {"drop", "create"}

\* C1: when the destination table exists and the policy is 'fail', the run
\* raises ValueError naming the table at the existence check: no drop, no
\* create and no insert is ever issued, the table and its rows stay as found.
C1_FailRaisesBeforeAnyWork ==
    (dest0.exists /\ args.if_exists = "fail") =>
        /\ log = <<>>
        /\ dest = dest0
        /\ pc \notin {"drop", "create", "insert", "done"}
        /\ (pc = "error" /\ engine = "created" =>
                err = <<"ValueError", args.table_name>>)

C1_Witness ==
    /\ pc = "error"
    /\ err = <<"ValueError", args.table_name>>
    /\ args.if_exists = "fail"
    /\ Len(dest.rows) >= 2
    /\ Len(df.rows) > args.batch_size

\* C2: the extractor opens the Spark session or a JDBC read only when exactly
\* one of table name and custom query was supplied; both, or neither, ends
\* the run at validation.
C2_ExactlyOneSelector ==
    /\ (spark # "none" \/ jdbc > 0) => (xargs.table # xargs.query)
    /\ (xpc # "validate" /\ xargs.table = xargs.query) => xpc = "exit"

\* C3: with policy 'replace' and the table present, a successful run issues
\* drop, then create, then the inserts, and the destination then holds
\* exactly the rows of the source and none it held before, with or without
\* a schema.
C3_ReplaceYieldsExactlySource ==
    (pc = "done" /\ dest0.exists /\ args.if_exists = "replace") =>
        /\ dest.rows = df.rows
        /\ Len(log) >= 2
        /\ log[1].op = "drop"
        /\ log[2].op = "create"
        /\ \A j \in 3..Len(log) : log[j].op = "insert"

\* C4: while the insertion loop runs, and when it is interrupted by a failing
\* batch after k completed batches, the destination has gained exactly the
\* first min(k * batch_size, N) rows of the source, in order, and nothing else.
C4_InterruptedAfterBatchK ==
    (pc = "insert" \/ (pc = "error" /\ err # NoError
                                    /\ err[1] = "DBAPIError")) =>
        LET k == Len(Inserts)
            n == Len(df.rows)
        IN /\ i = k * args.batch_size
           /\ dest.rows = before \o SubSeq(df.rows, 1,
                                           Min(k * args.batch_size, n))

C4_Witness ==
    /\ pc = "error"
    /\ err # NoError
    /\ err[1] = "DBAPIError"
    /\ Len(Inserts) = 2
    /\ args.batch_size = 2
    /\ Len(df.rows) = 5
    /\ Len(before) >= 1

\* C5: a successful run of N rows with batch size B performs exactly
\* ceil(N / B) appends, the j-th holding source rows (j-1)*B+1 .. min(j*B, N):
\* B rows each except possibly the last, every source row exactly once.
C5_BatchCountAndSizes ==
    pc = "done" =>
        LET n == Len(df.rows)
            b == args.batch_size
            ins == Inserts
        IN /\ Len(ins) = Ceil(n, b)
           /\ \A j \in 1..Len(ins) :
                /\ ins[j].rows = SubSeq(df.rows, (j - 1) * b + 1, Min(j * b, n))
                /\ j < Len(ins) => Len(ins[j].rows) = b
                /\ j = Len(ins) => Len(ins[j].rows) = n - b * (Ceil(n, b) - 1)
           /\ \A r \in Range(df.rows) :
                Cardinality({<<j, m>> \in (1..Len(ins)) \X (1..b) :
                    m <= Len(ins[j].rows) /\ ins[j].rows[m] = r}) = 1

C5_Witness ==
    /\ pc = "done"
    /\ Len(df.rows) = 5
    /\ args.batch_size = 2
    /\ Len(Inserts) = 3
    /\ Len(Inserts[3].rows) = 1

\* C6: when a run of the restorer has ended, normally or by an error, no
\* DuckDB connection is left open and no SQLAlchemy engine is left undisposed.
C6_AllHandlesReleased ==
    pc \in {"done", "error"} => (duck # "open" /\ engine # "created")

\* C7: when the archive path does not exist, no DuckDB handle is ever opened
\* and no read is attempted, and the run ends in FileNotFoundError, with or
\* without a transformation query.
C7_MissingPathFailsBeforeOpen ==
    ~args.parquet_path_exists =>
        /\ duck = "none"
        /\ reads = 0
        /\ (pc = "error" => err = <<"FileNotFoundError", "parquet_path">>)

\* C8: DDL follows the decision table.  Table absent: under every policy the
\* first statement is the create, with one column per source column in source
\* order, and no drop is issued.  Table present and policy 'append': no drop
\* and no create is issued, the rows found stay, and on completion the N
\* source rows have been added after them.
C8_DdlDecisionTable ==
    /\ ~dest0.exists =>
        /\ pc \in {"insert", "done"} => log # <<>>
        /\ log # <<>> =>
            /\ log[1].op = "create"
            /\ \A j \in 2..Len(log) : log[j].op = "insert"
            /\ dest.exists
            /\ Len(dest.columns) = Len(df.columns)
            /\ \A k \in 1..Len(df.columns) :
                    dest.columns[k].name = df.columns[k].name
    /\ (dest0.exists /\ args.if_exists = "append") =>
        /\ \A j \in 1..Len(log) : ~IsDdl(log[j])
        /\ dest.exists
        /\ dest.columns = dest0.columns
        /\ Len(dest.rows) >= Len(dest0.rows)
        /\ SubSeq(dest.rows, 1, Len(dest0.rows)) = dest0.rows
        /\ (pc = "done" => dest.rows = dest0.rows \o df.rows)

C8_Witness ==
    /\ pc = "done"
    /\ dest0.exists
    /\ args.if_exists = "append"
    /\ Len(dest0.rows) >= 1
    /\ Len(df.rows) >= 2
    /\ Len(df.columns) # Len(dest.columns)

\* the relational type the mapping table gives a column type
MappedType(d) ==
    CASE is_integer_dtype(d) -> <<"INTEGER">>
      [] is_float_dtype(d) /\ ~is_integer_dtype(d) -> <<"FLOAT">>
      [] is_datetime64_dtype(d) /\ ~is_integer_dtype(d) /\ ~is_float_dtype(d)
            -> <<"DATETIME2">>
      [] OTHER -> <<"VARCHAR", 255>>

C10_CodecFallback ==
    xpc \in {"write", "returned", "raised"} =>
        /\ IF lower(xargs.compression) \in
                {"snappy", "gzip", "lzo", "zstd", "none"}
             THEN codec = xargs.compression /\ warnings = 0
             ELSE codec = "snappy" /\ warnings = 1
        /\ (xpc = "returned" => output.exists /\ output.codec = codec)
        /\ (xpc = "raised" => xerr[1] # "IllegalArgumentException")

C10_Witness ==
    /\ xpc = "returned"
    /\ xargs.compression = "bogus"
    /\ warnings = 1
    /\ output.codec = "snappy"

====
